---- MODULE Spec2Model ----
(***************************************************************************)
(* Cache-build coordinator of api/download_file.py for ONE cache key       *)
(* (obj_type, obj_id, filetype): the Redis entries of FileCache, the       *)
(* canonical and temporary cache files, the read view                  *)
(* EntityFeatureView.get with the generator stream_live, the Celery tasks  *)
(* build_cache and deferred_rebuild, invalidate_and_rebuild_cache,         *)
(* prebuild_cache and the post_delete signal handlers.                     *)
(*                                                                         *)
(* Every access to Redis, to the file system or to the Celery broker is    *)
(* one atomic step; the steps of concurrent requests, signal handlers and  *)
(* worker processes interleave freely.  Time is counted in ticks of 1/Hz   *)
(* second so that the truncation int(delay_seconds) is visible.  The lock   *)
(* key carries its expiry time; Spec explores less time than any expiry    *)
(* (3600 s for the lock and the task id, 86400 s for the rebuild time and  *)
(* the pending flag), LockSpec follows the lock through its expiry.        *)
(***************************************************************************)
EXTENDS Integers, Sequences, FiniteSets, TLC

\* ---------------------------------------------------------------- bounds
\* two populations are explored: "race" (requests against prebuild, forced
\* invalidation and deletion, no time) and "throttle" (signal-driven
\* invalidations, deferred tasks and the clock)
RaceReads == 2
RaceCalls == 2
ThrottleReads == 1
ThrottleCalls == 3
RaceBusy == 2
ThrottleBusy == 1
MaxDefs == 3
MaxJobs == 3
MaxTicks == 2
NumChunks == 2
MaxRecords == 2

\* longest text value of a record
MaxText == 3

\* operations performed on the keys side by side
MaxOps == 3

\* ------------------------------------------------------ program constants
Hz == 2
THROTTLE_SECONDS == 300
MARGIN_SECONDS == 10
RETRY_SECONDS == 60
LOCK_TIMEOUT_SECONDS == 3600
MAX_WKT_LENGTH == 10000

VARIABLES
    now,      \* time.time(), in ticks
    lock,     \* Redis key <filetype>_build_lock: who set it and when it
              \* expires, NoOwner when absent
    task,     \* Redis key <filetype>_build_task: a job id, 0 when absent
    last,     \* Redis key <filetype>_last_rebuild: a time, -1 when absent
    pending,  \* Redis key <filetype>_pending_rebuild exists
    canon,    \* inode linked at the canonical cache path, 0 when no file
    tmp,      \* inode linked at cache path + '.tmp', 0 when no file
    inode,    \* content of the inode created by each read request
    req,      \* read requests (EntityFeatureView.get and its stream_live)
    op,       \* signal handlers, prebuild calls and deferred_rebuild tasks
    job,      \* build_cache tasks
    quota,    \* requests, calls and clock ticks still allowed to start
    wins,     \* successful acquire_build_lock calls since the lock was last absent
    gen,      \* one run of the generator stream_live, seen from inside
    row,      \* the columns of one TSV row
    space     \* the cache files and Redis entries of several keys

vars == <<now, lock, task, last, pending, canon, tmp, inode, req, op, job, quota, wins,
          gen, row, space>>

store == <<lock, task, last, pending>>
files == <<canon, tmp, inode>>
export == <<gen, row, space>>
coordinator == <<now, lock, task, last, pending, canon, tmp, inode, req, op, job,
                 quota, wins>>

MaxReads == IF RaceReads >= ThrottleReads THEN RaceReads ELSE ThrottleReads
MaxCalls == IF RaceCalls >= ThrottleCalls THEN RaceCalls ELSE ThrottleCalls

Reads == 1..MaxReads
Calls == 1..MaxCalls
Defs == (MaxCalls + 1)..(MaxCalls + MaxDefs)
Ops == Calls \cup Defs
Jobs == 1..MaxJobs

Max(a, b) == IF a >= b THEN a ELSE b

NoOwner == [k |-> "none", i |-> 0]
Owner(kind, i) == [k |-> kind, i |-> i]

\* who set the lock key
Holder(l) == [k |-> l.k, i |-> l.i]

\* a plain SET NX: the key never expires (its TTL reads -1)
SetLockNoExpiry(kind, i, t) == [k |-> kind, i |-> i, ex |-> -1]

\* the key written by redis_client.set(lock_key, "building", ex=timeout,
\* nx=True) at time t, timeout=3600
SetLock(kind, i, t) == [k |-> kind, i |-> i, ex |-> t + LOCK_TIMEOUT_SECONDS * Hz]

\* Redis no longer has the key l at time t
Expired(l, t) == l # NoOwner /\ l.ex >= 0 /\ t >= l.ex

\* ------------------------------------------------------------ FileCache
is_cached == canon # 0

is_building == lock # NoOwner

\* a plain SET, without nx=True
acquire_build_lock_overwrite == TRUE

\* redis_client.set(lock_key, "building", ex=timeout, nx=True) succeeds
acquire_build_lock == lock = NoOwner

should_throttle_rebuild ==
    /\ last # -1
    /\ now - last < THROTTLE_SECONDS * Hz

has_pending_rebuild == pending

\* ----------------------------------------------------------- file system
Artifact == [i \in 1..NumChunks |-> i]

Complete(content) == content = Artifact

\* the gap a write beyond the end of a file leaves (content 0)
RECURSIVE Holes(_)
Holes(n) == IF n <= 0 THEN <<>> ELSE <<0>> \o Holes(n - 1)

\* write chunk number off+1 at file position off of an inode
WriteAt(content, off) ==
    IF off < Len(content)
    THEN [content EXCEPT ![off + 1] = off + 1]
    ELSE content \o Holes(off - Len(content)) \o <<off + 1>>

\* an inode nobody links or holds open is gone
Referenced(i, c, t, r) == c = i \/ t = i \/ \E x \in Reads : r[x].h = i

Collect(ino, c, t, r) ==
    [i \in Reads |-> IF Referenced(i, c, t, r) THEN ino[i] ELSE <<>>]

\* ---------------------------------------------------------------- Init
NewReq == [pc |-> "new", path |-> "", off |-> 0, h |-> 0, ab |-> FALSE, pub |-> FALSE,
           late |-> FALSE]

\* held: the lock key as it was when the invalidation began;
\* mid: the requests that were in the middle of their records when the
\* invalidation began (once it has ended: those of them still writing);
\* at (of a build_cache task): when a non-forced invalidation or a deferred
\* task submitted it, -1 for any other submission
NewOp == [pc |-> "none", kind |-> "none", tid |-> 0, cd |-> 0, eta |-> 0,
          base |-> -1, sub |-> FALSE, saw |-> FALSE, held |-> NoOwner, mid |-> {}]

NewJob == [pc |-> "none", rev |-> FALSE, at |-> -1]

\* no stream_live run and no row under way
NoGen == [pc |-> "none"]
NoRow == [pc |-> "none"]

\* no key space under observation
NoSpace == [pc |-> "none"]

\* nothing is allowed to arrive
NoScenario == [reads |-> 0, calls |-> 0, ticks |-> 0, busy |-> 0, kinds |-> {}]

Scenarios ==
    { [reads |-> RaceReads, calls |-> RaceCalls, ticks |-> 0, busy |-> RaceBusy,
       kinds |-> {"force", "pre", "del"}],
      [reads |-> ThrottleReads, calls |-> ThrottleCalls, ticks |-> MaxTicks,
       busy |-> ThrottleBusy, kinds |-> {"inv", "del"}] }

Init ==
    /\ now = 0
    /\ lock = NoOwner
    /\ task = 0
    /\ last = -1
    /\ pending = FALSE
    /\ canon = 0
    /\ tmp = 0
    /\ inode = [i \in Reads |-> <<>>]
    /\ req = [r \in Reads |-> NewReq]
    /\ op = [o \in Ops |-> NewOp]
    /\ job = [j \in Jobs |-> NewJob]
    /\ quota \in Scenarios
    /\ wins = 0
    /\ gen = NoGen
    /\ row = NoRow
    /\ space = NoSpace

\* the coordinator before anything has arrived, allowed the population q
Idle(q) ==
    /\ now = 0
    /\ lock = NoOwner
    /\ task = 0
    /\ last = -1
    /\ pending = FALSE
    /\ canon = 0
    /\ tmp = 0
    /\ inode = [i \in Reads |-> <<>>]
    /\ req = [r \in Reads |-> NewReq]
    /\ op = [o \in Ops |-> NewOp]
    /\ job = [j \in Jobs |-> NewJob]
    /\ quota = q
    /\ wins = 0

\* requests and handler calls in flight in the web processes (Celery tasks
\* run beside them in the worker processes)
Busy ==
    Cardinality({r \in Reads : req[r].pc \notin {"new", "done"}})
    + Cardinality({c \in Calls : op[c].pc \notin {"none", "done", "raised"}})

\* the entity has been deleted: a post_delete handler has begun
DeleteBegun == \E c \in Calls : op[c].kind = "del"

\* ------------------------------------------------ EntityFeatureView.get
\* a request arrives (requests are numbered in their order of arrival) and
\* get_object_or_404 finds the entity:
\* if FileCache.is_cached(...): serve stream_from_file(cache_path)
ReadIsCached(r) ==
    /\ req[r].pc = "new"
    /\ ~DeleteBegun
    /\ quota.reads > 0
    /\ Busy < quota.busy
    /\ \A x \in Reads : x < r => req[x].pc # "new"
    /\ req' = [req EXCEPT ![r].pc = IF is_cached THEN "hit" ELSE "is_building"]
    /\ quota' = [quota EXCEPT !.reads = @ - 1]
    /\ UNCHANGED <<export, now, store, files, op, job, wins>>

\* response["Content-Length"] = os.path.getsize(cache_path); stream_from_file
ReadHit(r) ==
    /\ req[r].pc = "hit"
    /\ req' = [req EXCEPT ![r].pc = "done"]
    /\ UNCHANGED <<export, now, store, files, op, job, quota, wins>>

\* if not FileCache.is_building(...)
ReadIsBuilding(r) ==
    /\ req[r].pc = "is_building"
    /\ req' = [req EXCEPT ![r] = IF is_building
                                 THEN [@ EXCEPT !.pc = "live", !.path = "joined"]
                                 ELSE [@ EXCEPT !.pc = "acquire"]]
    /\ UNCHANGED <<export, now, store, files, op, job, quota, wins>>

\* the losing request is handed the cache path as well
LostLockCaches(rec) == [rec EXCEPT !.pc = "open", !.path = "lost"]

\* "Someone else got the lock - stream live without caching":
\* stream_live(obj_type, obj, request, filetype=filetype)
LostLock(rec) == [rec EXCEPT !.pc = "live", !.path = "lost"]

\* if FileCache.acquire_build_lock(...): stream_live(cache_filepath=cache_path)
\* else: stream_live without a cache path
ReadAcquire(r) ==
    /\ req[r].pc = "acquire"
    /\ IF acquire_build_lock
       THEN /\ lock' = SetLock("req", r, now)
            /\ wins' = wins + 1
            /\ req' = [req EXCEPT ![r].pc = "open", ![r].path = "build",
                                  ![r].late = DeleteBegun]
       ELSE /\ req' = [req EXCEPT ![r] = LostLock(@)]
            /\ UNCHANGED <<lock, wins>>
    /\ UNCHANGED <<export, now, task, last, pending, files, op, job, quota>>

\* stream_live(..., cache_filepath=None) run by a request: no file, no Redis
ReadLive(r) ==
    /\ req[r].pc = "live"
    /\ req' = [req EXCEPT ![r].pc = "done", ![r].path = ""]
    /\ UNCHANGED <<export, now, store, files, op, job, quota, wins>>

\* --------------------------------------------------- stream_live, cached
\* cache_file = open(cache_filepath + '.tmp', 'wb'): creates the file, or
\* truncates the one that is there
StreamOpen(r) ==
    /\ req[r].pc = "open"
    /\ LET i == IF tmp = 0 THEN r ELSE tmp
       IN /\ tmp' = i
          /\ inode' = [inode EXCEPT ![i] = <<>>]
          /\ req' = [req EXCEPT ![r].pc = "write", ![r].h = i, ![r].off = 0]
    /\ UNCHANGED <<export, now, store, canon, op, job, quota, wins>>

\* write_and_yield: cache_file.write(chunk); yield chunk (the last chunk is
\* the gzip trailer)
StreamWrite(r) ==
    /\ req[r].pc = "write"
    /\ req[r].off < NumChunks
    /\ inode' = [inode EXCEPT ![req[r].h] = WriteAt(@, req[r].off)]
    /\ req' = [req EXCEPT ![r].off = @ + 1]
    /\ UNCHANGED <<export, now, store, canon, tmp, op, job, quota, wins>>

\* finally: cache_file.close(); if os.path.exists(tmp): os.rename(tmp, path)
Finally(r, aborted) ==
    LET r2 == [req EXCEPT ![r] = [@ EXCEPT !.pc = "done", !.h = 0, !.off = 0,
                                           !.ab = aborted, !.pub = (tmp # 0)]]
        c2 == IF tmp # 0 THEN tmp ELSE canon
    IN /\ req' = r2
       /\ canon' = c2
       /\ tmp' = 0
       /\ inode' = Collect(inode, c2, 0, r2)

\* the generator is resumed after it has yielded the trailer: it falls out
\* of the try block into finally
StreamFinish(r) ==
    /\ req[r].pc = "write"
    /\ req[r].off = NumChunks
    /\ Finally(r, FALSE)
    /\ UNCHANGED <<export, now, store, op, job, quota, wins>>

\* an exception raised while serializing, or GeneratorExit thrown at a
\* yield when the consumer closes the response before the trailer: the
\* finally clause runs all the same
StreamAbort(r) ==
    /\ req[r].pc = "write"
    /\ req[r].off > 0
    /\ req[r].off < NumChunks
    /\ Finally(r, TRUE)
    /\ UNCHANGED <<export, now, store, op, job, quota, wins>>

Read(r) ==
    \/ ReadIsCached(r)
    \/ ReadHit(r)
    \/ ReadIsBuilding(r)
    \/ ReadAcquire(r)
    \/ ReadLive(r)
    \/ StreamOpen(r)
    \/ StreamWrite(r)
    \/ StreamFinish(r)
    \/ StreamAbort(r)

\* ------------------------------------------------------------ build_cache
\* FileCache.store_build_task_id(...); TYPE_MAP.get; objects.get; then
\* open(cache_path + '.tmp', 'wb', encoding='utf-8') raises ValueError
\* (binary mode takes no encoding) before any file is created, so the task
\* is in its except clause as soon as it has stored its id
JobStart(j) ==
    /\ job[j].pc = "queued"
    /\ task' = j
    /\ job' = [job EXCEPT ![j].pc = "except"]
    /\ UNCHANGED <<export, now, lock, last, pending, files, req, op, quota, wins>>

\* except Exception: if os.path.exists(tmp): os.remove(tmp)
JobExcept(j) ==
    /\ job[j].pc = "except"
    /\ tmp' = 0
    /\ inode' = Collect(inode, canon, 0, req)
    /\ job' = [job EXCEPT ![j].pc = "release"]
    /\ UNCHANGED <<export, now, store, canon, req, op, quota, wins>>

\* revoke(terminate=True) reached the worker: SIGTERM raises SystemExit in
\* the task; raised in the try statement it skips "except Exception" and
\* runs the finally clause, raised in the finally clause it ends it
JobTerminate(j) ==
    /\ job[j].pc \in {"except", "release", "clear"}
    /\ job[j].rev
    /\ job' = [job EXCEPT ![j].pc = IF @ = "except" THEN "release" ELSE "done"]
    /\ UNCHANGED <<export, now, store, files, req, op, quota, wins>>

\* finally: FileCache.release_build_lock(...)
JobRelease(j) ==
    /\ job[j].pc = "release"
    /\ lock' = NoOwner
    /\ wins' = 0
    /\ job' = [job EXCEPT ![j].pc = "clear"]
    /\ UNCHANGED <<export, now, task, last, pending, files, req, op, quota>>

\* the task returns with its id still on record
JobReturn(j) ==
    /\ job[j].pc = "clear"
    /\ job' = [job EXCEPT ![j].pc = "done"]
    /\ UNCHANGED <<export, now, store, files, req, op, quota, wins>>

\* finally: FileCache.clear_build_task_id(...)
JobClear(j) ==
    /\ job[j].pc = "clear"
    /\ task' = 0
    /\ job' = [job EXCEPT ![j].pc = "done"]
    /\ UNCHANGED <<export, now, lock, last, pending, files, req, op, quota, wins>>

Build(j) ==
    \/ JobStart(j)
    \/ JobExcept(j)
    \/ JobTerminate(j)
    \/ JobRelease(j)
    \/ JobClear(j)

\* ------------------------------------------------- calls and their steps
\* a call that has returned keeps only what the properties below refer to
Ended(rec, pc) ==
    [rec EXCEPT !.pc = pc, !.tid = 0, !.cd = 0, !.eta = 0, !.held = NoOwner,
                !.mid = {r \in @ : req[r].pc = "write"},
                !.kind = IF @ \in {"del", "def"} THEN @ ELSE "call",
                !.base = IF rec.kind = "def" THEN @ ELSE -1]

Finish(rec) == Ended(rec, "done")

\* an exception leaves the handler or the task
Raise(rec) == Ended(rec, "raised")

\* what follows cancel_current_build: the post_delete handler is finished,
\* invalidate_and_rebuild_cache goes on to delete_cache
AfterCancel(rec) ==
    IF rec.kind = "del" THEN Finish(rec) ELSE [rec EXCEPT !.pc = "d_exists", !.tid = 0]

\* what follows delete_cache: the post_delete handler goes on to
\* cancel_current_build, invalidate_and_rebuild_cache to clear_pending_rebuild
AfterDelete(rec) ==
    IF rec.kind = "del" THEN [rec EXCEPT !.pc = "c_get"] ELSE [rec EXCEPT !.pc = "clr_pending"]

FreeDefs == {d \in Defs : op[d].pc = "none"}
FreeJobs == {j \in Jobs : job[j].pc = "none"}
Lowest(S) == CHOOSE x \in S : \A y \in S : x <= y

\* the remaining window without the safety margin
CountdownNoMargin(last_time, t) ==
    LET delay == Max(THROTTLE_SECONDS * Hz - (t - last_time), MARGIN_SECONDS * Hz)
    IN (delay \div Hz) * Hz

\* int(max(300 - (time.time() - last_time) + 10, 10)), in ticks
Countdown(last_time, t) ==
    LET delay == Max(THROTTLE_SECONDS * Hz - (t - last_time) + MARGIN_SECONDS * Hz,
                     MARGIN_SECONDS * Hz)
    IN (delay \div Hz) * Hz

\* the stream_live runs with a cache path that have yielded a chunk and not
\* yet ended
MidRecords == {r \in Reads : req[r].pc = "write" /\ req[r].off > 0}

EntryPc(kind) ==
    CASE kind = "inv" -> "throttle"
      [] kind = "force" -> "c_get"
      [] kind = "pre" -> "p_cached"
      [] kind = "del" -> "d_exists"

\* a signal handler or a prebuild_cache call begins:
\*   inv    post_save / m2m_changed: invalidate_and_rebuild_cache(force=False)
\*   force  prebuild_cache(force_rebuild=True): invalidate_and_rebuild_cache(force=True)
\*   pre    prebuild_cache(force_rebuild=False)
\*   del    post_delete: delete_cache, then cancel_current_build
CallStart(c, kind) ==
    /\ op[c].pc = "none"
    /\ quota.calls > 0
    /\ Busy < quota.busy
    /\ \A x \in Calls : x < c => op[x].pc # "none"
    /\ kind \in quota.kinds
    /\ kind = "inv" => ~DeleteBegun
    /\ op' = [op EXCEPT ![c] = [@ EXCEPT !.pc = EntryPc(kind), !.kind = kind,
                                         !.saw = (kind = "del" /\ is_building),
                                         !.held = IF kind \in {"inv", "force"}
                                                  THEN lock ELSE NoOwner,
                                         !.mid = IF kind \in {"inv", "force"}
                                                 THEN MidRecords ELSE {}]]
    /\ quota' = [quota EXCEPT !.calls = @ - 1]
    /\ UNCHANGED <<export, now, store, files, req, job, wins>>

\* if not force and FileCache.should_throttle_rebuild(...)
OpThrottle(o) ==
    /\ op[o].pc = "throttle"
    /\ op' = [op EXCEPT ![o] = IF should_throttle_rebuild
                               THEN [@ EXCEPT !.pc = "mark", !.mid = {}]
                               ELSE [@ EXCEPT !.pc = "c_get"]]
    /\ UNCHANGED <<export, now, store, files, req, job, quota, wins>>

\* the flag is set and the rebuild time recorded with it
OpMarkAndRecord(o) ==
    /\ op[o].pc = "mark"
    /\ pending' = TRUE
    /\ last' = now
    /\ op' = [op EXCEPT ![o].pc = "getlast"]
    /\ UNCHANGED <<export, now, lock, task, files, req, job, quota, wins>>

\* FileCache.mark_pending_rebuild(...)
OpMark(o) ==
    /\ op[o].pc = "mark"
    /\ pending' = TRUE
    /\ op' = [op EXCEPT ![o].pc = "getlast"]
    /\ UNCHANGED <<export, now, lock, task, last, files, req, job, quota, wins>>

\* last_time = float(redis_client.get(last_key).decode()); delay_seconds = ...
OpGetLast(o) ==
    /\ op[o].pc = "getlast"
    /\ op' = [op EXCEPT ![o] = IF last = -1
                               THEN Raise(@)
                               ELSE [@ EXCEPT !.pc = "async", !.base = last,
                                              !.cd = Countdown(last, now)]]
    /\ UNCHANGED <<export, now, store, files, req, job, quota, wins>>

\* deferred_rebuild.apply_async(args=..., countdown=int(delay_seconds))
OpAsync(o) ==
    /\ op[o].pc = "async"
    /\ FreeDefs # {}
    /\ LET d == Lowest(FreeDefs)
       IN op' = [op EXCEPT ![o] = Finish(@),
                           ![d] = [@ EXCEPT !.pc = "queued", !.kind = "def",
                                            !.eta = now + op[o].cd, !.base = op[o].base]]
    /\ UNCHANGED <<export, now, store, files, req, job, quota, wins>>

\* cancel_current_build: task_id = FileCache.get_build_task_id(...);
\* if task_id: current_app.control.revoke(task_id, terminate=True)
OpCancelGet(o) ==
    /\ op[o].pc = "c_get"
    /\ IF task = 0
       THEN /\ op' = [op EXCEPT ![o] = AfterCancel(@)]
            /\ UNCHANGED job
       ELSE /\ op' = [op EXCEPT ![o] = [@ EXCEPT !.pc = "c_release", !.tid = task]]
            /\ job' = [job EXCEPT ![task].rev = (job[task].pc # "done")]
    /\ UNCHANGED <<export, now, store, files, req, quota, wins>>

\* cancel_current_build: FileCache.release_build_lock(...)
OpCancelRelease(o) ==
    /\ op[o].pc = "c_release"
    /\ lock' = NoOwner
    /\ wins' = 0
    /\ op' = [op EXCEPT ![o].pc = "c_clear"]
    /\ UNCHANGED <<export, now, task, last, pending, files, req, job, quota>>

\* cancel_current_build: FileCache.clear_build_task_id(...); return True
OpCancelClear(o) ==
    /\ op[o].pc = "c_clear"
    /\ task' = 0
    /\ op' = [op EXCEPT ![o] = AfterCancel(@)]
    /\ UNCHANGED <<export, now, lock, last, pending, files, req, job, quota, wins>>

\* delete_cache: if os.path.exists(path)
OpDelExists(o) ==
    /\ op[o].pc = "d_exists"
    /\ op' = [op EXCEPT ![o] = IF is_cached THEN [@ EXCEPT !.pc = "d_remove"]
                               ELSE AfterDelete(@)]
    /\ UNCHANGED <<export, now, store, files, req, job, quota, wins>>

\* delete_cache: os.remove(path), FileNotFoundError when the file has gone
OpDelRemove(o) ==
    /\ op[o].pc = "d_remove"
    /\ IF canon = 0
       THEN /\ op' = [op EXCEPT ![o] = Raise(@)]
            /\ UNCHANGED files
       ELSE /\ op' = [op EXCEPT ![o] = AfterDelete(@)]
            /\ canon' = 0
            /\ inode' = Collect(inode, 0, tmp, req)
            /\ UNCHANGED tmp
    /\ UNCHANGED <<export, now, store, req, job, quota, wins>>

\* FileCache.clear_pending_rebuild(...)
OpClearPending(o) ==
    /\ op[o].pc = "clr_pending"
    /\ pending' = FALSE
    /\ op' = [op EXCEPT ![o].pc = "record"]
    /\ UNCHANGED <<export, now, lock, task, last, files, req, job, quota, wins>>

\* FileCache.record_rebuild_time(...)
OpRecord(o) ==
    /\ op[o].pc = "record"
    /\ last' = now
    /\ op' = [op EXCEPT ![o].pc = "acquire"]
    /\ UNCHANGED <<export, now, lock, task, pending, files, req, job, quota, wins>>

\* the caller goes on to submit whether or not it obtained the lock
OpAcquireAnyway(o) ==
    /\ op[o].pc = "acquire"
    /\ IF acquire_build_lock
       THEN /\ lock' = SetLock("op", o, now)
            /\ wins' = wins + 1
       ELSE UNCHANGED <<lock, wins>>
    /\ op' = [op EXCEPT ![o].pc = "submit", ![o].saw = DeleteBegun]
    /\ UNCHANGED <<export, now, task, last, pending, files, req, job, quota>>

\* if FileCache.acquire_build_lock(...)
OpAcquire(o) ==
    /\ op[o].pc = "acquire"
    /\ IF acquire_build_lock
       THEN /\ lock' = SetLock("op", o, now)
            /\ wins' = wins + 1
            /\ op' = [op EXCEPT ![o].pc = "submit", ![o].saw = DeleteBegun]
       ELSE /\ op' = [op EXCEPT ![o] = Finish(@)]
            /\ UNCHANGED <<lock, wins>>
    /\ UNCHANGED <<export, now, task, last, pending, files, req, job, quota>>

\* build_cache.delay(obj_type, obj_id, filetype=filetype)
OpSubmit(o) ==
    /\ op[o].pc = "submit"
    /\ FreeJobs # {}
    /\ job' = [job EXCEPT ![Lowest(FreeJobs)] =
                   [@ EXCEPT !.pc = "queued",
                             !.at = IF op[o].kind \in {"inv", "def"} THEN now ELSE -1]]
    /\ op' = [op EXCEPT ![o] = [Finish(@) EXCEPT !.sub = (op[o].kind = "def")]]
    /\ UNCHANGED <<export, now, store, files, req, quota, wins>>

\* prebuild_cache: if not FileCache.is_cached(...)
PreCached(o) ==
    /\ op[o].pc = "p_cached"
    /\ op' = [op EXCEPT ![o] = IF is_cached THEN Finish(@)
                               ELSE [@ EXCEPT !.pc = "p_building"]]
    /\ UNCHANGED <<export, now, store, files, req, job, quota, wins>>

\* prebuild_cache: and not FileCache.is_building(...)
PreBuilding(o) ==
    /\ op[o].pc = "p_building"
    /\ op' = [op EXCEPT ![o] = IF is_building THEN Finish(@)
                               ELSE [@ EXCEPT !.pc = "acquire"]]
    /\ UNCHANGED <<export, now, store, files, req, job, quota, wins>>

\* ------------------------------------------------------- deferred_rebuild
\* the task goes on whether or not the flag is set
DefFireAlways(d) ==
    /\ op[d].pc = "queued"
    /\ now >= op[d].eta
    /\ op' = [op EXCEPT ![d].pc = "d_throttle"]
    /\ UNCHANGED <<export, now, store, files, req, job, quota, wins>>

\* the worker runs the task once its countdown has elapsed:
\* if FileCache.has_pending_rebuild(...)
DefFire(d) ==
    /\ op[d].pc = "queued"
    /\ now >= op[d].eta
    /\ op' = [op EXCEPT ![d] = IF has_pending_rebuild THEN [@ EXCEPT !.pc = "d_throttle"]
                               ELSE Finish(@)]
    /\ UNCHANGED <<export, now, store, files, req, job, quota, wins>>

\* if not FileCache.should_throttle_rebuild(...):
\*     invalidate_and_rebuild_cache(..., force=True)
DefThrottle(d) ==
    /\ op[d].pc = "d_throttle"
    /\ op' = [op EXCEPT ![d] = IF should_throttle_rebuild
                               THEN [@ EXCEPT !.pc = "resched"]
                               ELSE [@ EXCEPT !.pc = "c_get", !.held = lock,
                                              !.mid = MidRecords]]
    /\ UNCHANGED <<export, now, store, files, req, job, quota, wins>>

\* the retry waits for the safety margin only
DefReschedMargin(d) ==
    /\ op[d].pc = "resched"
    /\ FreeDefs # {}
    /\ LET n == Lowest(FreeDefs)
       IN op' = [op EXCEPT ![d] = Finish(@),
                           ![n] = [@ EXCEPT !.pc = "queued", !.kind = "def",
                                            !.eta = now + MARGIN_SECONDS * Hz,
                                            !.base = op[d].base]]
    /\ UNCHANGED <<export, now, store, files, req, job, quota, wins>>

\* deferred_rebuild.apply_async(args=..., countdown=60)
DefResched(d) ==
    /\ op[d].pc = "resched"
    /\ FreeDefs # {}
    /\ LET n == Lowest(FreeDefs)
       IN op' = [op EXCEPT ![d] = Finish(@),
                           ![n] = [@ EXCEPT !.pc = "queued", !.kind = "def",
                                            !.eta = now + RETRY_SECONDS * Hz,
                                            !.base = op[d].base]]
    /\ UNCHANGED <<export, now, store, files, req, job, quota, wins>>

Step(o) ==
    \/ OpThrottle(o)
    \/ OpMark(o)
    \/ OpGetLast(o)
    \/ OpAsync(o)
    \/ OpCancelGet(o)
    \/ OpCancelRelease(o)
    \/ OpCancelClear(o)
    \/ OpDelExists(o)
    \/ OpDelRemove(o)
    \/ OpClearPending(o)
    \/ OpRecord(o)
    \/ OpAcquire(o)
    \/ OpSubmit(o)
    \/ PreCached(o)
    \/ PreBuilding(o)
    \/ DefFire(o)
    \/ DefThrottle(o)
    \/ DefResched(o)

\* ------------------------------------------------------------------ time
Jumps == {1, MARGIN_SECONDS * Hz, THROTTLE_SECONDS * Hz}

\* time passes (the clock starts with the first recorded rebuild time); a
\* lock key whose expiry time has come is gone
Tick(d) ==
    /\ quota.ticks > 0
    /\ last # -1
    /\ now' = now + d
    /\ lock' = IF Expired(lock, now + d) THEN NoOwner ELSE lock
    /\ wins' = IF Expired(lock, now + d) THEN 0 ELSE wins
    /\ quota' = [quota EXCEPT !.ticks = @ - 1]
    /\ UNCHANGED <<export, task, last, pending, files, req, op, job>>

Next ==
    \/ \E r \in Reads : Read(r)
    \/ \E c \in Calls : \E kind \in {"inv", "force", "pre", "del"} : CallStart(c, kind)
    \/ \E o \in Ops : Step(o)
    \/ \E j \in Jobs : Build(j)
    \/ \E d \in Jumps : Tick(d)

\* ------------------------------------------- the lock key and its expiry
\* read requests alone (a request-driven build never releases the lock),
\* with time running past the lock's expiry
LockScenario ==
    [reads |-> RaceReads, calls |-> 0, ticks |-> 0, busy |-> RaceReads, kinds |-> {}]

LockInit ==
    /\ Idle(LockScenario)
    /\ gen = NoGen
    /\ row = NoRow
    /\ space = NoSpace

\* half the timeout and the whole of it
LockJumps == {(LOCK_TIMEOUT_SECONDS * Hz) \div 2, LOCK_TIMEOUT_SECONDS * Hz}

\* time passes while the lock key exists; the key is gone once its expiry
\* time has come
LockTick(d) ==
    /\ is_building
    /\ now' = now + d
    /\ lock' = IF Expired(lock, now + d) THEN NoOwner ELSE lock
    /\ wins' = IF Expired(lock, now + d) THEN 0 ELSE wins
    /\ UNCHANGED <<export, task, last, pending, files, req, op, job, quota>>

LockNext ==
    \/ \E r \in Reads : Read(r)
    \/ \E d \in LockJumps : LockTick(d)

\* time does not stop
LockSpec == LockInit /\ [][LockNext]_vars /\ WF_vars(\E d \in LockJumps : LockTick(d))

\* ---------------------------------------------- stream_live, from inside
\* what the generator emits, chunk by chunk (the fixed texts are shortened;
\* a chunk stands for the compressed bytes of its text)
ContextChunk == "{\"@context\":\"linkedplaces-context-v1.1.jsonld\",\"type\":\"FeatureCollection\""
CitationChunk == ",\"citation\":{}"
LicenseChunk == ",\"license\":\"CC BY-NC 4.0\""
FeaturesChunk == ",\"features\":["
DatasetErrorChunk == "],\"error\":{\"message\":\"Dataset collections may not be downloaded. Please download each constituent dataset individually.\"}}"
UnsupportedErrorChunk == "],\"error\":{\"message\":\"LPF export by streaming is only supported for datasets and place collections.\"}}"
HeaderChunk == "id\ttitle\ttitle_source\ttitle_uri\tccodes\tmatches\tnames\ttypes\taat_types\tparent_name\tparent_id\tlon\tlat\tgeowkt\tgeo_source\tgeo_id\tstart\tend\n"
DatasetErrorLine == "Error: Dataset collections may not be downloaded. Please download each constituent dataset individually.\n"
UnsupportedErrorLine == "Error: TSV export by streaming is only supported for datasets and place collections.\n"

\* what gzip_file.close() leaves in the buffer: the end of the deflate
\* stream, the CRC and the length
Trailer == "<gzip end-of-stream>"

\* json.dumps(PlaceFeatureSerializer(place).data) of the place with id p
FeatureChunk(p) == "{\"id\":\"" \o p \o "\"}"

\* '\t'.join(row) + '\n' of the place with id p
RowChunk(p) == p \o "\ttitle of " \o p \o "\n"

RecordIds == {"p1", "p2"}

SeqsUpTo(S, n) == UNION {[1..k -> S] : k \in 0..n}

\* (obj_type, obj.collection_class) of the entities a run is given
Entities ==
    { [o |-> "dataset", c |-> ""], [o |-> "collection", c |-> "dataset"],
      [o |-> "collection", c |-> "place"], [o |-> "area", c |-> ""] }

\* the calls stream_live(obj_type, obj, request, filetype, cache_filepath):
\* recs is what qs.iterator() will yield, bad the position of a place whose
\* serialization raises (0: none)
GenRuns ==
    { [pc |-> "start", filetype |-> f, obj_type |-> e.o, cclass |-> e.c, citation |-> c,
       recs |-> s, bad |-> b, cache |-> k, out |-> <<>>, file |-> <<>>, i |-> 0,
       first |-> TRUE, susp |-> FALSE, how |-> "", renamed |-> FALSE] :
      f \in {"lpf", "tsv"}, e \in Entities, c \in BOOLEAN, k \in BOOLEAN,
      s \in SeqsUpTo(RecordIds, MaxRecords), b \in 0..MaxRecords }

StreamInit ==
    /\ Idle(NoScenario)
    /\ gen \in {g \in GenRuns : g.bad <= Len(g.recs)}
    /\ row = NoRow
    /\ space = NoSpace

\* write_and_yield(data): cache_file.write(chunk) if there is a cache file;
\* yield chunk
Emit(g, chunk) ==
    [g EXCEPT !.out = Append(@, chunk),
              !.file = IF g.cache THEN Append(@, chunk) ELSE @,
              !.susp = TRUE]

\* finally: if cache_file: cache_file.close(); os.rename(tmp, cache_filepath)
GenFinally(g, how) ==
    [g EXCEPT !.pc = "done", !.how = how, !.susp = FALSE, !.renamed = g.cache]

\* every dispatch treats a dataset collection as a record source
SourceNoDatasetCheck(obj_type, cclass) ==
    IF obj_type \in {"dataset", "collection"} THEN "places" ELSE "unsupported"

\* if obj_type == "dataset": ... elif obj_type == "collection" and
\* obj.collection_class == "dataset": ... elif ... == "place": ... else: ...
Source(obj_type, cclass) ==
    IF obj_type = "dataset" THEN "places"
    ELSE IF obj_type = "collection" /\ cclass = "dataset" THEN "dataset_collection"
    ELSE IF obj_type = "collection" /\ cclass = "place" THEN "places"
    ELSE "unsupported"

\* a separator before every feature
NeedsSeparatorAlways(first) == TRUE

\* if not first: yield from write_and_yield(',')
NeedsSeparator(first) == ~first

\* cache_file = open(cache_filepath + '.tmp', 'wb') if a cache path was
\* given; buffer and gzip_file are set up; the try block is entered
GenStart ==
    /\ gen.pc = "start"
    /\ gen' = [gen EXCEPT !.pc = IF gen.filetype = "lpf" THEN "context" ELSE "header"]
    /\ UNCHANGED <<coordinator, row, space>>

GenContext ==
    /\ gen.pc = "context"
    /\ gen' = [Emit(gen, ContextChunk) EXCEPT
                  !.pc = IF gen.citation THEN "citation" ELSE "license"]
    /\ UNCHANGED <<coordinator, row, space>>

\* if citation: yield from write_and_yield(',"citation":' + ...)
GenCitation ==
    /\ gen.pc = "citation"
    /\ gen' = [Emit(gen, CitationChunk) EXCEPT !.pc = "license"]
    /\ UNCHANGED <<coordinator, row, space>>

GenLicense ==
    /\ gen.pc = "license"
    /\ gen' = [Emit(gen, LicenseChunk) EXCEPT !.pc = "features"]
    /\ UNCHANGED <<coordinator, row, space>>

\* yield from write_and_yield(',"features":['); first = True
GenFeatures ==
    /\ gen.pc = "features"
    /\ gen' = [Emit(gen, FeaturesChunk) EXCEPT !.pc = "source", !.first = TRUE]
    /\ UNCHANGED <<coordinator, row, space>>

\* TSV: yield from write_and_yield('\t'.join(headers) + '\n')
GenHeader ==
    /\ gen.pc = "header"
    /\ gen' = [Emit(gen, HeaderChunk) EXCEPT !.pc = "source"]
    /\ UNCHANGED <<coordinator, row, space>>

\* the choice of the record source: qs = obj.places.all(), or the rejection
\* text is emitted and the generator is to return
GenSource ==
    /\ gen.pc = "source"
    /\ LET src == Source(gen.obj_type, gen.cclass)
           lpf == gen.filetype = "lpf"
       IN gen' = CASE src = "places" ->
                        [gen EXCEPT !.pc = "next", !.susp = FALSE]
                   [] src = "dataset_collection" ->
                        [Emit(gen, IF lpf THEN DatasetErrorChunk ELSE DatasetErrorLine)
                            EXCEPT !.pc = "return"]
                   [] src = "unsupported" ->
                        [Emit(gen, IF lpf THEN UnsupportedErrorChunk
                                   ELSE UnsupportedErrorLine)
                            EXCEPT !.pc = "return"]
    /\ UNCHANGED <<coordinator, row, space>>

\* for place in qs.iterator(): the next place is fetched; LPF: if not first:
\* write_and_yield(',') else: first = False.  After the last place LPF goes
\* on to close the array, TSV to finish the gzip stream
GenNext ==
    /\ gen.pc = "next"
    /\ gen' = IF gen.i < Len(gen.recs)
              THEN IF gen.filetype = "lpf" /\ NeedsSeparator(gen.first)
                   THEN [Emit(gen, ",") EXCEPT !.i = @ + 1, !.pc = "feature"]
                   ELSE [gen EXCEPT !.i = @ + 1, !.pc = "feature", !.first = FALSE,
                                    !.susp = FALSE]
              ELSE [gen EXCEPT !.pc = IF gen.filetype = "lpf" THEN "close_array"
                                      ELSE "trailer",
                               !.susp = FALSE]
    /\ UNCHANGED <<coordinator, row, space>>

\* feature = PlaceFeatureSerializer(place, ...).data, which may raise (the
\* exception leaves through the finally clause); LPF: write_and_yield(
\* json.dumps(feature)), TSV: the row is built and write_and_yield(row)
GenFeature ==
    /\ gen.pc = "feature"
    /\ gen' = IF gen.bad = gen.i
              THEN GenFinally(gen, "raised")
              ELSE [Emit(gen, IF gen.filetype = "lpf" THEN FeatureChunk(gen.recs[gen.i])
                              ELSE RowChunk(gen.recs[gen.i]))
                       EXCEPT !.pc = "next"]
    /\ UNCHANGED <<coordinator, row, space>>

\* yield from write_and_yield(']')
GenCloseArray ==
    /\ gen.pc = "close_array"
    /\ gen' = [Emit(gen, "]") EXCEPT !.pc = "close_doc"]
    /\ UNCHANGED <<coordinator, row, space>>

\* yield from write_and_yield('}')
GenCloseDoc ==
    /\ gen.pc = "close_doc"
    /\ gen' = [Emit(gen, "}") EXCEPT !.pc = "trailer"]
    /\ UNCHANGED <<coordinator, row, space>>

\* gzip_file.close(); trailer = buffer.read(); cache_file.write(trailer);
\* yield trailer
GenTrailer ==
    /\ gen.pc = "trailer"
    /\ gen' = [Emit(gen, Trailer) EXCEPT !.pc = "end"]
    /\ UNCHANGED <<coordinator, row, space>>

\* the generator is resumed after its last yield: a rejection executes its
\* return statement, a full run falls out of the try block; either way the
\* finally clause runs and the generator is exhausted
GenReturn ==
    /\ gen.pc \in {"return", "end"}
    /\ gen' = GenFinally(gen, "returned")
    /\ UNCHANGED <<coordinator, row, space>>

\* the consumer closes the generator while it is suspended at a yield:
\* GeneratorExit is raised there and leaves through the finally clause
GenExit ==
    /\ gen.pc \notin {"none", "start", "done"}
    /\ gen.susp
    /\ gen' = GenFinally(gen, "closed")
    /\ UNCHANGED <<coordinator, row, space>>

StreamNext ==
    \/ GenStart
    \/ GenContext
    \/ GenCitation
    \/ GenLicense
    \/ GenFeatures
    \/ GenHeader
    \/ GenSource
    \/ GenNext
    \/ GenFeature
    \/ GenCloseArray
    \/ GenCloseDoc
    \/ GenTrailer
    \/ GenReturn
    \/ GenExit

StreamSpec == StreamInit /\ [][StreamNext]_vars

\* ------------------------------------ EntityFeatureView.get, up to the stream
\* the keys of TYPE_MAP that matter here, and one that is not a key
TypeMapKeys == {"dataset", "collection", "area"}

\* values of the filetype query parameter
Asked == {"lpf", "tsv", "TSV", "csv"}

\* str.lower() on those values
Lower(s) ==
    CASE s = "TSV" -> "tsv"
      [] OTHER -> s

\* GET requests: the entity type and format they name, the entity they
\* find, and whether the request will obtain the build lock (cache)
ViewRequests ==
    { [pc |-> "request", asked |-> a, filetype |-> "", obj_type |-> e.o, cclass |-> e.c,
       citation |-> c, recs |-> s, bad |-> 0, cache |-> k, out |-> <<>>, file |-> <<>>,
       i |-> 0, first |-> TRUE, susp |-> FALSE, how |-> "", renamed |-> FALSE] :
      a \in Asked, e \in Entities \cup {[o |-> "nosuch", c |-> ""]}, c \in BOOLEAN,
      k \in BOOLEAN, s \in SeqsUpTo(RecordIds, MaxRecords) }

ViewInit ==
    /\ Idle(NoScenario)
    /\ gen \in ViewRequests
    /\ row = NoRow
    /\ space = NoSpace

\* config = TYPE_MAP.get(obj_type); if not config: raise Http404.
\* filetype = request.GET.get('filetype', 'lpf').lower(); if filetype not in
\* ['lpf', 'tsv']: filetype = 'lpf'.  Then the response streams
\* stream_live(..., filetype=filetype) with or without a cache file
ViewGet ==
    /\ gen.pc = "request"
    /\ gen' = IF gen.obj_type \notin TypeMapKeys
              THEN [gen EXCEPT !.pc = "done", !.how = "Http404"]
              ELSE [gen EXCEPT !.pc = "start",
                               !.filetype = IF Lower(gen.asked) \notin {"lpf", "tsv"}
                                            THEN "lpf" ELSE Lower(gen.asked)]
    /\ UNCHANGED <<coordinator, row, space>>

ViewNext ==
    \/ ViewGet
    \/ StreamNext

ViewSpec == ViewInit /\ [][ViewNext]_vars

\* ------------------------------------- the geometry columns of a TSV row
GeomTypes ==
    {"Point", "MultiPoint", "LineString", "MultiLineString", "Polygon", "MultiPolygon",
     "GeometryCollection"}

\* WKT lengths around the budget
Lengths == {MAX_WKT_LENGTH - 1, MAX_WKT_LENGTH, MAX_WKT_LENGTH + 1}

\* the characters a text value is made of: a letter, a space, a tab, a line
\* feed and a carriage return
Chars == {"a", " ", "\t", "\n", "\r"}

Texts == SeqsUpTo(Chars, MaxText)

\* the primary geometry of a feature and how GEOS deals with it: whether
\* its coordinates list is non-empty, whether its first coordinate pair is
\* where the indexing looks for it, whether GEOSGeometry(...) and .wkt
\* succeed, the length of the full WKT, whether simplify() succeeds and the
\* length of its WKT, whether point_on_surface and centroid succeed
GeomRows ==
    [pc : {"start"}, geom_type : GeomTypes, has_coords : BOOLEAN, pair_ok : BOOLEAN,
     parse_ok : BOOLEAN, full_len : Lengths, simplify_ok : BOOLEAN, simp_len : Lengths,
     pos_ok : BOOLEAN, centroid_ok : BOOLEAN, title_kind : {"str"}, title : {<<"a">>},
     ccodes : {"codes"}, lon : {""}, lat : {""}, geowkt : {""}, raised : {FALSE},
     error : {""}, cells : {<<>>}, line : {<<>>}]

\* the text values of a feature: feature.get('title', '') is a string, None
\* or the default of an absent key; feature.get('ccodes', []) is a list of
\* codes, an empty list or None
TextRows ==
    { [pc |-> "start", geom_type |-> "Point", has_coords |-> TRUE, pair_ok |-> TRUE,
       parse_ok |-> TRUE, full_len |-> MAX_WKT_LENGTH - 1, simplify_ok |-> TRUE,
       simp_len |-> MAX_WKT_LENGTH - 1, pos_ok |-> TRUE, centroid_ok |-> TRUE,
       title_kind |-> k, title |-> t, ccodes |-> c, lon |-> "", lat |-> "", geowkt |-> "",
       raised |-> FALSE, error |-> "", cells |-> <<>>, line |-> <<>>] :
      k \in {"str", "null", "absent"}, t \in Texts, c \in {"codes", "empty", "null"} }

RowInputs == GeomRows \cup {r \in TextRows : r.title_kind # "str" => r.title = <<>>}

RowInit ==
    /\ Idle(NoScenario)
    /\ gen = NoGen
    /\ row \in RowInputs
    /\ space = NoSpace

\* lon, lat = '', ''; then str() of the first coordinate pair, by geometry
\* type (a MultiLineString or a GeometryCollection gets none).  The indexing
\* coords[0], coords[1], coords[0][0], ... is outside every try block: an
\* index that is not there raises IndexError out of the loop
RowPrimary ==
    /\ row.pc = "start"
    /\ LET known == /\ row.has_coords
                    /\ row.geom_type \in {"Point", "LineString", "MultiPoint", "Polygon",
                                          "MultiPolygon"}
       IN row' = IF known /\ ~row.pair_ok
                 THEN [row EXCEPT !.pc = "raised", !.error = "IndexError"]
                 ELSE [row EXCEPT !.pc = "wkt",
                                  !.lon = IF known THEN "12.5" ELSE "",
                                  !.lat = IF known THEN "41.9" ELSE ""]
    /\ UNCHANGED <<coordinator, gen, space>>

\* the budget includes its limit no more
OverBudgetFromLimit(n) == n >= MAX_WKT_LENGTH

\* len(wkt) > MAX_WKT_LENGTH
OverBudget(n) == n > MAX_WKT_LENGTH

\* except Exception: POINT(lon lat) if lon and lat, else ''
Fallback(r) ==
    [geowkt |-> IF r.lon # "" /\ r.lat # "" THEN "POINT(" \o r.lon \o " " \o r.lat \o ")"
                ELSE "",
     raised |-> TRUE]

\* geos_geom.centroid.wkt; its exception reaches the outer handler
Centroid(r) ==
    IF r.centroid_ok THEN [geowkt |-> "centroid.wkt", raised |-> FALSE] ELSE Fallback(r)

\* geos_geom.point_on_surface.wkt; when that is missing or raises (the bare
\* except), the centroid
PointOnSurface(r) ==
    IF r.pos_ok THEN [geowkt |-> "point_on_surface.wkt", raised |-> FALSE] ELSE Centroid(r)

\* the try block of lines 287-320
GeoWkt(r) ==
    IF ~r.parse_ok THEN Fallback(r)
    ELSE IF r.geom_type \in {"Polygon", "MultiPolygon", "LineString", "MultiLineString"}
    THEN IF OverBudget(r.full_len)
         THEN IF r.simplify_ok
              THEN IF ~OverBudget(r.simp_len)
                   THEN [geowkt |-> "simplified.wkt", raised |-> FALSE]
                   ELSE PointOnSurface(r)
              ELSE Centroid(r)
         ELSE [geowkt |-> "geos_geom.wkt", raised |-> FALSE]
    ELSE [geowkt |-> "geos_geom.wkt", raised |-> FALSE]

\* "Convert to WKT with size management"
RowGeowkt ==
    /\ row.pc = "wkt"
    /\ row' = [row EXCEPT !.pc = "row", !.geowkt = GeoWkt(row).geowkt,
                          !.raised = GeoWkt(row).raised]
    /\ UNCHANGED <<coordinator, gen, space>>

\* the column names of the header row
headers ==
    <<"id", "title", "title_source", "title_uri", "ccodes", "matches", "names", "types",
      "aat_types", "parent_name", "parent_id", "lon", "lat", "geowkt", "geo_source",
      "geo_id", "start", "end">>

\* a computed column: one unit of text, or nothing
Unit(s) == IF s = "" THEN <<>> ELSE <<s>>

\* row = [str(feature.get('id', '')), feature.get('title', ''), ...]: the
\* values of the columns before escaping (the place has no links, names,
\* types, relations or dates)
Row(r) ==
    [h \in 1..Len(headers) |->
        CASE headers[h] = "id" -> <<"7">>
          [] headers[h] = "title" -> r.title
          [] headers[h] = "ccodes" -> IF r.ccodes = "codes" THEN <<"IT;GR">> ELSE <<>>
          [] headers[h] = "lon" -> Unit(r.lon)
          [] headers[h] = "lat" -> Unit(r.lat)
          [] headers[h] = "geowkt" -> Unit(r.geowkt)
          [] OTHER -> <<>>]

\* str.replace(old, new) for a one-character old
Replace(s, old, new) == [i \in 1..Len(s) |-> IF s[i] = old THEN new ELSE s[i]]

\* str.replace(old, '')
Remove(s, old) == SelectSeq(s, LAMBDA c : c # old)

\* the characters str.strip() takes off both ends
Whitespace == {" ", "\t", "\n", "\r"}

RECURSIVE LStrip(_)
LStrip(s) == IF s # <<>> /\ Head(s) \in Whitespace THEN LStrip(Tail(s)) ELSE s

RECURSIVE RStrip(_)
RStrip(s) ==
    IF s # <<>> /\ s[Len(s)] \in Whitespace THEN RStrip(SubSeq(s, 1, Len(s) - 1)) ELSE s

\* str.strip()
Strip(s) == RStrip(LStrip(s))

\* the value is used as it is
EscapeNothing(field) == field

\* field.replace('\t', ' ').replace('\n', ' ').replace('\r', '').strip()
Escape(field) == Strip(Remove(Replace(Replace(field, "\t", " "), "\n", " "), "\r"))

\* sep.join(cells)
RECURSIVE Join(_, _)
Join(cells, sep) ==
    IF cells = <<>> THEN <<>>
    ELSE IF Len(cells) = 1 THEN cells[1]
    ELSE cells[1] \o <<sep>> \o Join(Tail(cells), sep)

\* "Build the row", "Escape tabs, newlines, and carriage returns in field
\* values" and '\t'.join(row) + '\n': iterating over a None ccodes raises
\* TypeError while the list is built, .replace on a None title raises
\* AttributeError while it is escaped; nothing in the loop catches either
RowAssemble ==
    /\ row.pc = "row"
    /\ row' = IF row.ccodes = "null"
              THEN [row EXCEPT !.pc = "raised", !.error = "TypeError"]
              ELSE IF row.title_kind = "null"
              THEN [row EXCEPT !.pc = "raised", !.error = "AttributeError"]
              ELSE LET cells == [h \in 1..Len(headers) |-> Escape(Row(row)[h])]
                   IN [row EXCEPT !.pc = "done", !.cells = cells,
                                  !.line = Join(cells, "\t") \o <<"\n">>]
    /\ UNCHANGED <<coordinator, gen, space>>

RowNext ==
    \/ RowPrimary
    \/ RowGeowkt
    \/ RowAssemble

RowSpec == RowInit /\ [][RowNext]_vars

\* ------------------------------------------------- several keys side by side
\* the keys: (entity type, entity id, format)
Keys == [t : {"dataset", "collection"}, id : {"1", "11"}, f : {"lpf", "tsv"}]

\* every format shares one extension
get_cache_path_one_ext(k) == "whg_" \o k.t \o "_" \o k.id \o ".lpf.gz"

\* ext = 'tsv.gz' if filetype == 'tsv' else 'lpf.gz';
\* os.path.join(CACHE_DIR, f"whg_{obj_type}_{obj_id}.{ext}")
get_cache_path(k) ==
    "whg_" \o k.t \o "_" \o k.id \o "." \o (IF k.f = "tsv" THEN "tsv.gz" ELSE "lpf.gz")

\* cache_filepath + '.tmp'
TmpPath(k) == get_cache_path(k) \o ".tmp"

\* f"{filetype}_build_lock:{obj_type}:{obj_id}"
get_build_lock_key(k) == k.f \o "_build_lock:" \o k.t \o ":" \o k.id

\* f"{filetype}_build_task:{obj_type}:{obj_id}"
get_build_task_key(k) == k.f \o "_build_task:" \o k.t \o ":" \o k.id

\* f"{filetype}_last_rebuild:{obj_type}:{obj_id}"
get_last_rebuild_key(k) == k.f \o "_last_rebuild:" \o k.t \o ":" \o k.id

\* f"{filetype}_pending_rebuild:{obj_type}:{obj_id}"
get_pending_rebuild_key(k) == k.f \o "_pending_rebuild:" \o k.t \o ":" \o k.id

\* nothing on disk, nothing in Redis, no operation performed yet
KeyInit ==
    /\ Idle(NoScenario)
    /\ gen = NoGen
    /\ row = NoRow
    /\ space = [pc |-> "keys", redis |-> {}, fs |-> {}, key |-> [t |-> "", id |-> "", f |-> ""],
                ops |-> MaxOps]

\* an operation for key k leaves the Redis entries r and the files f
Act(k, r, f) ==
    /\ space.pc = "keys"
    /\ space.ops > 0
    /\ space' = [space EXCEPT !.redis = r, !.fs = f, !.key = k, !.ops = @ - 1]
    /\ UNCHANGED <<coordinator, gen, row>>

\* cancel_current_build: if a task id is on record, revoke, release_build_lock,
\* clear_build_task_id
Cancelled(k, r) ==
    IF get_build_task_key(k) \in r
    THEN r \ {get_build_lock_key(k), get_build_task_key(k)}
    ELSE r

\* acquire_build_lock: SET lock_key "building" EX timeout NX
KeyAcquire(k) == Act(k, space.redis \cup {get_build_lock_key(k)}, space.fs)

\* store_build_task_id, mark_pending_rebuild, record_rebuild_time: SET key value EX
KeySet(k) ==
    \E key \in {get_build_task_key(k), get_pending_rebuild_key(k), get_last_rebuild_key(k)} :
        Act(k, space.redis \cup {key}, space.fs)

\* release_build_lock, clear_build_task_id, clear_pending_rebuild: DELETE key
KeyDelete(k) ==
    \E key \in {get_build_lock_key(k), get_build_task_key(k), get_pending_rebuild_key(k)} :
        Act(k, space.redis \ {key}, space.fs)

\* delete_cache: if os.path.exists(path): os.remove(path)
KeyDeleteCache(k) == Act(k, space.redis, space.fs \ {get_cache_path(k)})

\* cancel_current_build
KeyCancel(k) == Act(k, Cancelled(k, space.redis), space.fs)

\* a read request that finds no cached file and no lock: acquire_build_lock,
\* stream_live with the cache path: the temporary file is opened, written
\* and renamed to the cache path
KeyStream(k) ==
    /\ get_cache_path(k) \notin space.fs
    /\ get_build_lock_key(k) \notin space.redis
    /\ Act(k, space.redis \cup {get_build_lock_key(k)},
           (space.fs \ {TmpPath(k)}) \cup {get_cache_path(k)})

\* a read request whose consumer has not read to the end: the lock is
\* acquired and the temporary file is open
KeyStreaming(k) ==
    /\ get_cache_path(k) \notin space.fs
    /\ get_build_lock_key(k) \notin space.redis
    /\ Act(k, space.redis \cup {get_build_lock_key(k)}, space.fs \cup {TmpPath(k)})

\* build_cache: store_build_task_id; open() raises; except: the temporary
\* file is removed if it exists; finally: release_build_lock,
\* clear_build_task_id
KeyBuildCache(k) ==
    Act(k, space.redis \ {get_build_lock_key(k), get_build_task_key(k)},
        space.fs \ {TmpPath(k)})

\* invalidate_and_rebuild_cache: inside the throttle window (a last-rebuild
\* time is on record and recent) mark_pending_rebuild and a deferred task;
\* otherwise cancel_current_build, delete_cache, clear_pending_rebuild,
\* record_rebuild_time, acquire_build_lock and build_cache.delay
KeyInvalidate(k) ==
    \E throttled \in {b \in BOOLEAN : b => get_last_rebuild_key(k) \in space.redis} :
        IF throttled
        THEN Act(k, space.redis \cup {get_pending_rebuild_key(k)}, space.fs)
        ELSE Act(k, ((Cancelled(k, space.redis) \ {get_pending_rebuild_key(k)})
                        \cup {get_last_rebuild_key(k), get_build_lock_key(k)}),
                 space.fs \ {get_cache_path(k)})

\* deferred_rebuild: without the pending flag nothing; with it, inside the
\* window a new deferred task, otherwise the forced invalidation
KeyDeferred(k) ==
    \E throttled \in BOOLEAN :
        IF get_pending_rebuild_key(k) \notin space.redis \/ throttled
        THEN Act(k, space.redis, space.fs)
        ELSE Act(k, ((Cancelled(k, space.redis) \ {get_pending_rebuild_key(k)})
                        \cup {get_last_rebuild_key(k), get_build_lock_key(k)}),
                 space.fs \ {get_cache_path(k)})

KeyNext ==
    \E k \in Keys :
        \/ KeyAcquire(k)
        \/ KeySet(k)
        \/ KeyDelete(k)
        \/ KeyDeleteCache(k)
        \/ KeyCancel(k)
        \/ KeyStream(k)
        \/ KeyStreaming(k)
        \/ KeyBuildCache(k)
        \/ KeyInvalidate(k)
        \/ KeyDeferred(k)

KeySpec == KeyInit /\ [][KeyNext]_vars

\* ============================================================ properties
Window == THROTTLE_SECONDS * Hz

\* no request, handler call, build task or deferred task is in the middle of
\* its work
Quiet ==
    /\ \A r \in Reads : req[r].pc \in {"new", "done"}
    /\ \A c \in Calls : op[c].pc \in {"none", "done", "raised"}
    /\ \A d \in Defs : op[d].pc \in {"none", "queued", "done", "raised"}
    /\ \A j \in Jobs : job[j].pc \in {"none", "done"}

\* the stream_live run of request r ends in this step
Completes(r) == req[r].pc = "write" /\ req'[r].pc = "done" /\ ~req'[r].ab
Aborts(r) == req[r].pc = "write" /\ req'[r].pc = "done" /\ req'[r].ab

\* C1: a file that exists at the canonical cache path holds the complete
\* output of a build that ran to normal completion.
C1_CanonicalFileComplete == canon # 0 => Complete(inode[canon])

\* C2: at no time are two builders in the phase where they write the key's
\* temporary file or rename it (build_cache tasks never enter that phase:
\* their open() raises).
C2_OneWriter == Cardinality({r \in Reads : req[r].pc = "write"}) <= 1

\* C3: among the acquire_build_lock calls made since the lock was last
\* absent exactly one has returned true, every other one a falsy value, and
\* is_building reports the key as locked from that acquisition until the
\* lock is deleted.
C3_OneWinner == wins <= 1 /\ (wins = 1 <=> is_building)

\* C3 case: two requests both saw the lock free; one acquired it and is
\* building, the other lost the acquisition.
C3_Witness ==
    \E r1, r2 \in Reads :
        /\ req[r1].path = "build" /\ req[r1].pc \in {"open", "write"}
        /\ req[r2].path = "lost"
        /\ Holder(lock) = Owner("req", r1)

\* C4: when a build completes successfully and its file is renamed to the
\* canonical path, the key's lock and job-id entries are cleared as part of
\* that completion.
C4_CompletionClearsLock ==
    [][\A r \in Reads : (Completes(r) /\ req'[r].pub) => (lock' = NoOwner /\ task' = 0)]_vars

\* C5: when a stream_live run that was given a cache path ends by an
\* exception or by its consumer closing it before the final chunk, the
\* temporary file is removed and not renamed: the canonical path holds what
\* it held before.
C5_AbortDiscardsTemp ==
    [][\A r \in Reads : Aborts(r) =>
          /\ canon' = canon
          /\ tmp' = 0
          /\ (canon # 0 => inode'[canon] = inode[canon])]_vars

\* C6: when a post_delete handler that found a build in progress has
\* returned, every build has stopped and no build was started after the
\* handler began, no file exists at the canonical path and the lock and
\* job-id entries are absent.
C6_CancelLeavesNothing ==
    ( /\ \E c \in Calls : op[c].kind = "del" /\ op[c].pc = "done" /\ op[c].saw
      /\ Quiet
      /\ \A r \in Reads : ~req[r].late
      /\ \A o \in Ops : op[o].kind # "del" => ~op[o].saw )
    => (canon = 0 /\ lock = NoOwner /\ task = 0)

\* C7: the deferred tasks scheduled by the non-forced invalidations of one
\* throttle window (tasks with the same recorded rebuild time) never submit
\* more than one build_cache job between them.
C7_OneRebuildPerWindow ==
    \A d1, d2 \in Defs :
        (d1 # d2 /\ op[d1].sub /\ op[d2].sub) => op[d1].base # op[d2].base

\* C8: a deferred task is never due, and never starts a rebuild, earlier
\* than the throttle window after the last-rebuild time that the invalidation
\* scheduling it read (the countdown max(300 - elapsed + 10, 10), truncated).
C8_NotBeforeWindow ==
    \A d \in Defs :
        /\ op[d].pc = "queued" => op[d].eta >= op[d].base + Window
        /\ op[d].pc \notin {"none", "queued", "done", "raised"} => now >= op[d].base + Window

\* C8 case: a deferred task scheduled by a throttled invalidation has started
\* its rebuild and is about to submit the build_cache job.
C8_Witness == \E d \in Defs : op[d].pc = "submit" /\ op[d].base >= 0

\* C9: whenever the pending-rebuild flag is set, a deferred task is queued or
\* running, or the invalidate call that set the flag has not yet returned.
C9_PendingHasDeferred ==
    pending =>
        \/ \E d \in Defs : op[d].pc \notin {"none", "done", "raised"}
        \/ \E c \in Calls : op[c].pc \in {"getlast", "async"}

InvalidateReturns(o) ==
    /\ op[o].kind \in {"inv", "force", "def"}
    /\ op[o].pc \in {"acquire", "submit"}
    /\ op'[o].pc = "done"

\* C11: when a non-throttled or forced invalidation returns, the build that
\* held the key's lock when the invalidation began (request-driven, queued or
\* running) no longer holds it.
C11_InvalidateCancelsBuilds ==
    [][\A o \in Ops : InvalidateReturns(o) =>
          (op[o].held = NoOwner \/ lock' # op[o].held)]_vars

\* a build_cache task is queued or running
JobInFlight == \E j \in Jobs : job[j].pc \notin {"none", "done"}

\* C12: a deferred task that has cleared the pending flag has a build started
\* for it: it leaves its lock acquisition to submit build_cache, unless a
\* build_cache task is queued or running already.
C12_DeferredClearStartsBuild ==
    [][\A d \in Defs : (op[d].pc = "acquire" /\ op'[d].pc # "acquire") =>
          (op'[d].pc = "submit" \/ JobInFlight)]_vars

\* C13: a file appears at the canonical path only by the rename of a builder
\* whose own lock acquisition still stands at that moment.
C13_PublishedUnderLock ==
    [][(canon' # canon /\ canon' # 0) =>
          \E r \in Reads : /\ req[r].pc = "write"
                           /\ req'[r].pc = "done"
                           /\ Holder(lock) = Owner("req", r)]_vars

\* a build of the key has run to its end and published its file
BuildCompleted == \E r \in Reads : req[r].pc = "done" /\ req[r].pub /\ ~req[r].ab

\* C14: once every call and task has ended, should_throttle_rebuild is true
\* only if a build of the key has completed (the last-rebuild time is
\* advanced by completed builds alone).
C14_ThrottleOnlyAfterBuild == (Quiet /\ should_throttle_rebuild) => BuildCompleted

\* C15: two build_cache submissions made by non-forced invalidations or by
\* deferred tasks are at least the throttle window apart.
C15_RebuildsWindowApart ==
    \A j1, j2 \in Jobs :
        (j1 # j2 /\ job[j1].at >= 0 /\ job[j2].at >= job[j1].at) =>
            job[j2].at - job[j1].at >= Window

\* C16: a lock key that exists has an expiry time that lies ahead, at most
\* the timeout away (the expiry is set with the key, in one step), and a held
\* lock is eventually free for a new caller to acquire, whether or not its
\* holder releases it.
C16_LockExpires ==
    /\ [](is_building => (lock.ex > now /\ lock.ex <= now + LOCK_TIMEOUT_SECONDS * Hz))
    /\ (is_building ~> acquire_build_lock)

\* C16 case: a request-driven build has published its file and ended without
\* releasing the lock, and the lock has gone by expiry.
C16_Witness ==
    \E r \in Reads : /\ req[r].pc = "done" /\ req[r].pub
                     /\ now >= LOCK_TIMEOUT_SECONDS * Hz
                     /\ acquire_build_lock

\* how often chunk x occurs in the chunk sequence
Count(chunks, x) == Cardinality({k \in 1..Len(chunks) : chunks[k] = x})

\* what the consumer reads after decompression: the texts of the chunks one
\* after the other, the end-of-stream frame apart
RECURSIVE Text(_)
Text(chunks) ==
    IF chunks = <<>> THEN ""
    ELSE (IF Head(chunks) = Trailer THEN "" ELSE Head(chunks)) \o Text(Tail(chunks))

\* the run has ended by itself: no exception, not closed by its consumer
Returned == gen.pc = "done" /\ gen.how = "returned"

\* C17: every stream_live run that ends without an exception (rejections
\* included) has emitted the compressor's trailing frame exactly once, as its
\* last chunk, to the response and to the cache file when there is one, and
\* the file that was renamed ends with it.
C17_TrailerEndsEveryRun ==
    Returned =>
        /\ Count(gen.out, Trailer) = 1
        /\ gen.out[Len(gen.out)] = Trailer
        /\ gen.cache => (gen.renamed /\ gen.file = gen.out)

DatasetCollectionLpf ==
    gen.filetype = "lpf" /\ gen.obj_type = "collection" /\ gen.cclass = "dataset"

\* the preamble: context, the citation if the entity has one, the licence
Preamble == ContextChunk \o (IF gen.citation THEN CitationChunk ELSE "") \o LicenseChunk

\* C18: for a dataset collection in feature format stream_live reads no
\* record and never raises, and the document it has emitted when it returns
\* is the preamble, an empty feature array and the error field with the
\* per-dataset-download message.
C18_DatasetCollectionRejected ==
    DatasetCollectionLpf =>
        /\ gen.i = 0
        /\ gen.how # "raised"
        /\ Returned =>
              Text(gen.out) = Preamble \o ",\"features\":[]" \o
                  ",\"error\":{\"message\":\"Dataset collections may not be downloaded. Please download each constituent dataset individually.\"}}"

\* C18 case: the run for a dataset collection whose record source holds
\* places has returned.
C18_Witness == DatasetCollectionLpf /\ Returned /\ Len(gen.recs) = MaxRecords

\* the entity is a dataset or a place collection
HasRecords ==
    \/ gen.obj_type = "dataset"
    \/ gen.obj_type = "collection" /\ gen.cclass = "place"

\* the serialized places, in order, with a comma between neighbours
RECURSIVE CommaJoined(_)
CommaJoined(recs) ==
    IF recs = <<>> THEN ""
    ELSE IF Len(recs) = 1 THEN FeatureChunk(recs[1])
    ELSE FeatureChunk(recs[1]) \o "," \o CommaJoined(Tail(recs))

RECURSIVE Rows(_)
Rows(recs) == IF recs = <<>> THEN "" ELSE RowChunk(Head(recs)) \o Rows(Tail(recs))

\* C19: a run over n records that returns has emitted, in feature format,
\* the n serialized records in the source's order with n-1 separating commas
\* (none for n = 0, none leading or trailing) between "[" and "]", and in
\* table format the header row followed by the n rows (the header alone for
\* n = 0).
C19_RecordsCommaJoined ==
    (Returned /\ HasRecords) =>
        IF gen.filetype = "lpf"
        THEN /\ Text(gen.out) = Preamble \o ",\"features\":[" \o CommaJoined(gen.recs) \o "]}"
             /\ Count(gen.out, ",") = Max(Len(gen.recs) - 1, 0)
        ELSE Text(gen.out) = HeaderChunk \o Rows(gen.recs)

\* C19 case: a feature-format run over the largest record source has returned.
C19_Witness ==
    Returned /\ HasRecords /\ gen.filetype = "lpf" /\ Len(gen.recs) = MaxRecords

\* line, polygon and their multi-variants
Complex == row.geom_type \in {"LineString", "MultiLineString", "Polygon", "MultiPolygon"}

WithinBudget(n) == n <= MAX_WKT_LENGTH

\* C20: for a complex geometry geowkt is the full WKT when that is within
\* MAX_WKT_LENGTH; otherwise the simplified WKT when simplification succeeds
\* and its WKT is within MAX_WKT_LENGTH; otherwise a single point
\* (point-on-surface or centroid).  When encoding raises (GEOS rejects the
\* geometry, or no single point can be had) geowkt is POINT(lon lat) if the
\* primary coordinates were found and the empty string if not.
C20_GeowktThreeTiers ==
    (row.pc = "done" /\ Complex) =>
        IF row.raised
        THEN /\ ~row.parse_ok \/ ~row.centroid_ok
             /\ row.geowkt = IF row.lon # "" /\ row.lat # "" THEN "POINT(12.5 41.9)" ELSE ""
        ELSE /\ row.parse_ok
             /\ IF WithinBudget(row.full_len)
                THEN row.geowkt = "geos_geom.wkt"
                ELSE IF row.simplify_ok /\ WithinBudget(row.simp_len)
                THEN row.geowkt = "simplified.wkt"
                ELSE row.geowkt \in {"point_on_surface.wkt", "centroid.wkt"}

\* C20 case: a polygon whose full WKT is over the budget and whose simplified
\* WKT is exactly at the budget has been encoded.
C20_Witness ==
    /\ row.pc = "done" /\ row.geom_type = "Polygon" /\ row.parse_ok
    /\ row.full_len > MAX_WKT_LENGTH
    /\ row.simplify_ok /\ row.simp_len = MAX_WKT_LENGTH

\* C21: in table format no content of a single record makes stream_live
\* raise: whatever the record's field values are (a missing or non-string
\* value, a geometry that cannot be indexed or encoded, an empty list) its
\* row is emitted and the loop goes on to the next record.
C21_NoRecordRaises == row.pc # "raised"

\* a text with every tab replaced by a space, every carriage return taken
\* out and every line feed replaced by lf, in one pass
RECURSIVE Cleaned(_, _)
Cleaned(s, lf) ==
    IF s = <<>> THEN <<>>
    ELSE (CASE Head(s) = "\t" -> <<" ">>
            [] Head(s) = "\n" -> lf
            [] Head(s) = "\r" -> <<>>
            [] OTHER -> <<Head(s)>>) \o Cleaned(Tail(s), lf)

\* no white space at either end
Trimmed(s) == s = <<>> \/ (Head(s) \notin Whitespace /\ s[Len(s)] \notin Whitespace)

\* the emitted line is exactly 18 tab-separated fields on one line
OneLineOfFields ==
    /\ Len(row.cells) = 18
    /\ Count(row.line, "\t") = 17
    /\ Count(row.line, "\r") = 0
    /\ Count(row.line, "\n") = 1
    /\ row.line[Len(row.line)] = "\n"
    /\ \A h \in 1..Len(row.cells) : Trimmed(row.cells[h])

\* C22 as stated: in an emitted row the title has each tab replaced by a
\* single space and each carriage return and line feed removed, and is then
\* trimmed; the row is exactly 18 tab-separated fields on one line.
C22_LineFeedRemoved ==
    row.pc = "done" => /\ row.cells[2] = Strip(Cleaned(row.title, <<>>))
                       /\ OneLineOfFields

\* C22, amended: in an emitted row the title has each tab and each line feed
\* replaced by a single space and each carriage return removed, and is then
\* trimmed; the row is exactly 18 tab-separated fields on one line.
C22_FieldsEscaped ==
    row.pc = "done" => /\ row.cells[2] = Strip(Cleaned(row.title, <<" ">>))
                       /\ OneLineOfFields

\* C22 case: a row whose title has a line feed between two letters has been
\* emitted.
C22_Witness ==
    /\ row.pc = "done"
    /\ row.title = <<"a", "\n", "a">>
    /\ row.cells[2] = <<"a", " ", "a">>

\* C23: a request that names an entity type or a format the service does
\* not recognise is rejected before a coordination-store entry is written, a
\* file touched or a byte sent; an unrecognised format is never served or
\* cached as another format.
C23_UnrecognizedRejected ==
    (gen.obj_type \notin TypeMapKeys \/ Lower(gen.asked) \notin {"lpf", "tsv"}) =>
        /\ gen.out = <<>>
        /\ gen.file = <<>>
        /\ ~gen.renamed

\* C24: a build_cache job that is not cancelled and whose serialization does
\* not raise ends the body of its try statement having written the complete
\* artifact to the temporary file and renamed it: a new complete file is at
\* the canonical path.
C24_JobPublishes ==
    [][\A j \in Jobs : (job[j].pc = "except" /\ job'[j].pc = "release" /\ ~job[j].rev) =>
          /\ canon' # 0
          /\ canon' # canon
          /\ Complete(inode'[canon'])]_vars

C26_CancelAfterFinishNoOp ==
    [][\A o \in Ops :
          /\ (op[o].pc = "c_get" /\ op'[o] # op[o] /\ task = 0) =>
                UNCHANGED <<lock, task, files>>
          /\ ( /\ op[o].pc = "c_release" /\ op'[o] # op[o]
               /\ job[op[o].tid].pc = "done"
               /\ Holder(lock).k = "req" ) => lock' = lock]_vars

\* C27: a job id is on record for the key only while the key's build lock is
\* held.
C27_JobIdOnlyUnderLock == task # 0 => is_building

\* the deferred tasks put on the queue in this step
Scheduled == {d \in Defs : op[d].pc = "none" /\ op'[d].pc = "queued"}

\* C28: a non-forced invalidation that found the key inside the throttle
\* window sets the pending flag, then schedules exactly one deferred task
\* and returns; none of its steps touches the files, cancels a build or
\* modifies the lock, the job id or the last-rebuild time.
C28_ThrottledOnlyDefers ==
    [][\A c \in Calls :
          (op[c].kind = "inv" /\ op[c].pc \in {"mark", "getlast", "async"} /\ op'[c] # op[c]) =>
              /\ UNCHANGED <<lock, task, last, files, job>>
              /\ pending' = IF op[c].pc = "mark" THEN TRUE ELSE pending
              /\ Cardinality(Scheduled) = IF op[c].pc = "async" THEN 1 ELSE 0
              /\ op'[c].pc = CASE op[c].pc = "mark" -> "getlast"
                                [] op[c].pc = "getlast" -> "async"
                                [] op[c].pc = "async" -> "done"]_vars

\* C28 case: a throttled invalidation has returned: the flag is set, its
\* deferred task is queued and the cached file is still in place.
C28_Witness ==
    /\ pending
    /\ is_cached
    /\ \E c \in Calls : op[c].pc = "done"
    /\ \E d \in Defs : op[d].pc = "queued" /\ op[d].base = last

\* C29: a deferred task that finds the pending flag set and the key still
\* inside the throttle window schedules exactly one new deferred task, due
\* 60 s later, and returns; its steps change neither the pending flag, nor
\* the files, the lock, the job id or the last-rebuild time.
C29_ThrottledDeferredRetries ==
    [][\A d \in Defs :
          /\ (op[d].pc = "d_throttle" /\ op'[d] # op[d] /\ should_throttle_rebuild) =>
                /\ op'[d].pc = "resched"
                /\ Scheduled = {}
                /\ UNCHANGED <<store, files, job>>
          /\ (op[d].pc = "resched" /\ op'[d] # op[d]) =>
                /\ op'[d].pc = "done"
                /\ Cardinality(Scheduled) = 1
                /\ \A n \in Scheduled : op'[n].eta = now + 60 * Hz
                /\ UNCHANGED <<store, files, job>>]_vars

\* C29 case: a deferred task that found the flag set when it fired and the
\* key inside the window has just rescheduled itself: the new task is due in
\* 60 s and the key is still inside the window.
C29_Witness ==
    /\ should_throttle_rebuild
    /\ \E d, n \in Defs : /\ op[d].pc = "done" /\ op[d].kind = "def"
                          /\ op[n].pc = "queued" /\ op[n].eta = now + 60 * Hz

\* C30: a deferred task that fires and finds the pending flag absent returns
\* at once: it schedules nothing and changes neither the lock, the job id,
\* the last-rebuild time, the flag, the files nor any build.
C30_NoPendingNoEffect ==
    [][\A d \in Defs :
          (op[d].pc = "queued" /\ op'[d] # op[d] /\ ~has_pending_rebuild) =>
              /\ op'[d].pc = "done"
              /\ Scheduled = {}
              /\ UNCHANGED <<store, files, job>>]_vars

\* C30 case: the only deferred task there has been has fired after the flag
\* was cleared and before a new rebuild time was recorded, and has returned.
C30_Witness ==
    /\ ~pending
    /\ \E d \in Defs : /\ op[d].pc = "done" /\ op[d].kind = "def"
                       /\ op[d].base = last
                       /\ \A n \in Defs \ {d} : op[n].pc = "none"

\* the chunks a run has yielded to its consumer so far
Yielded(r) == SubSeq(Artifact, 1, req[r].off)

\* C31: while a stream_live run with a cache path is under way, the file it
\* writes holds exactly the chunks it has yielded so far, and when it
\* completes normally and publishes, the file at the canonical path is
\* exactly the chunks it yielded, in order.
C31_FileIsWhatWasYielded ==
    [][\A r \in Reads :
          /\ req[r].pc = "write" => inode[req[r].h] = Yielded(r)
          /\ (Completes(r) /\ req'[r].pub) => inode'[canon'] = Yielded(r)]_vars

\* C32: a request-driven build that was in the middle of its records when a
\* non-throttled invalidation of the key began does not publish its file
\* after that invalidation has returned.
C32_NoStalePublish ==
    [][\A r \in Reads :
          (req[r].pc = "write" /\ req'[r].pc = "done" /\ req'[r].pub) =>
              ~\E o \in Ops : op[o].pc = "done" /\ r \in op[o].mid]_vars

\* C33: the cleanup at the end of a build_cache job and the cleanup of
\* cancel_current_build remove only the entries of the job that ends or is
\* cancelled: neither deletes the lock a request-driven build holds, nor a
\* job id other than that job's.
C33_CleanupOwnEntriesOnly ==
    [][/\ \A j \in Jobs :
            /\ (job[j].pc = "release" /\ job'[j].pc = "clear" /\ Holder(lock).k = "req") =>
                  lock' = lock
            /\ (job[j].pc = "clear" /\ job'[j].pc = "done" /\ task # j) => task' = task
       /\ \A o \in Ops :
            /\ (op[o].pc = "c_release" /\ op'[o] # op[o] /\ Holder(lock).k = "req") =>
                  lock' = lock
            /\ (op[o].pc = "c_clear" /\ op'[o] # op[o] /\ task # op[o].tid) =>
                  task' = task]_vars

\* the build_cache jobs put on the queue in this step
Submitted == {j \in Jobs : job[j].pc = "none" /\ job'[j].pc = "queued"}

\* C34: a build_cache job is submitted only by a caller whose own lock
\* acquisition, the step before, succeeded (one job per submission); a
\* caller whose acquisition fails returns without submitting; a non-forced
\* prebuild_cache gets to the acquisition only after it saw no cached file
\* and then no lock, and it returns True (it ends at its submission) exactly
\* when it has submitted a job.
C34_SubmitOnlyAfterAcquire ==
    [][/\ Submitted # {} =>
            /\ Cardinality(Submitted) = 1
            /\ \E o \in Ops : op[o].pc = "submit" /\ op'[o].pc = "done"
       /\ \A o \in Ops :
            /\ (op[o].pc # "submit" /\ op'[o].pc = "submit") =>
                  (op[o].pc = "acquire" /\ ~is_building /\ Holder(lock') = Owner("op", o))
            /\ (op[o].pc = "acquire" /\ op'[o] # op[o] /\ is_building) =>
                  (op'[o].pc = "done" /\ Submitted = {})
            /\ op[o].kind = "pre" =>
                  /\ (op[o].pc # "acquire" /\ op'[o].pc = "acquire") =>
                        (op[o].pc = "p_building" /\ ~is_building)
                  /\ (op[o].pc # "p_building" /\ op'[o].pc = "p_building") =>
                        (op[o].pc = "p_cached" /\ ~is_cached)
                  /\ op'[o].pc = "done" => (op[o].pc = "submit" <=> Submitted # {})]_vars

\* C34 case: a prebuild_cache call (forced or not) on a key without a cached
\* file has acquired the lock, submitted its job and returned; the job is
\* queued and the lock is still the caller's.
C34_Witness ==
    /\ \E c \in Calls : op[c].pc = "done" /\ Holder(lock) = Owner("op", c)
    /\ \E j \in Jobs : job[j].pc = "queued"
    /\ "pre" \in quota.kinds /\ ~is_cached

\* the files and Redis entries that are those of key k
Entries(k) ==
    {get_cache_path(k), TmpPath(k), get_build_lock_key(k), get_build_task_key(k),
     get_last_rebuild_key(k), get_pending_rebuild_key(k)}

\* C35: an operation, build, invalidation or deferred task performed for
\* one key changes no file and no Redis entry of any other key, the same
\* entity in the other format included, and no two keys share an entry.
C35_OtherKeysUntouched ==
    [][\A k \in Keys : k # space'.key =>
          /\ Entries(k) \cap Entries(space'.key) = {}
          /\ space'.redis \cap Entries(k) = space.redis \cap Entries(k)
          /\ space'.fs \cap Entries(k) = space.fs \cap Entries(k)]_vars

\* C35 case: the table-format file of dataset 1 and the feature-format file
\* of dataset 11 are cached, and the operation just performed for the
\* feature format of dataset 1 has left its lock entry.
C35_Witness ==
    /\ space.pc = "keys"
    /\ space.key = [t |-> "dataset", id |-> "1", f |-> "lpf"]
    /\ {"whg_dataset_1.tsv.gz", "whg_dataset_11.lpf.gz"} \subseteq space.fs
    /\ "lpf_build_lock:dataset:1" \in space.redis

Spec == Init /\ [][Next]_vars

====
